---- MODULE Spec2Model ----
(***************************************************************************)
(* Student / course / grade tracker (py_msb-): the PostgreSQL tables of    *)
(* app/database/schema.py, the model classes of app/models and the         *)
(* service layer of app/services.                                          *)
(*                                                                         *)
(* Every model method opens its own cursor (db.get_cursor), i.e. it is one *)
(* committed transaction.  A service call is a sequence of such            *)
(* transactions.  The operators below are the model methods as functions   *)
(* of the tables; the lower-case service operators compose them in the     *)
(* order of the code, and the actions apply their result to the state.     *)
(* Text values that the code inspects character by character (student      *)
(* identifiers, enrollment codes, emails) are sequences of one-character   *)
(* strings.                                                                *)
(***************************************************************************)
EXTENDS Integers, Sequences, FiniteSets, TLC

VARIABLES students, courses, grades, courseSeq, gradeSeq, last, pc, loc

vars == <<students, courses, grades, courseSeq, gradeSeq, last, pc, loc>>

(***************************************************************************)
(* Bounds                                                                  *)
(***************************************************************************)
\* number of values the grades.id sequence may hand out
MaxGradeSeq == 2
\* number of values the courses.id sequence may hand out
MaxCourseSeq == 2

(***************************************************************************)
(* Characters                                                              *)
(***************************************************************************)
Digits == {"0", "1", "2", "3", "4", "5", "6", "7", "8", "9"}

Letters ==
  {"a", "b", "c", "d", "e", "f", "g", "h", "i", "j", "k", "l", "m",
   "n", "o", "p", "q", "r", "s", "t", "u", "v", "w", "x", "y", "z",
   "A", "B", "C", "D", "E", "F", "G", "H", "I", "J", "K", "L", "M",
   "N", "O", "P", "Q", "R", "S", "T", "U", "V", "W", "X", "Y", "Z"}

DigitChar(d) ==
  CASE d = 0 -> "0" [] d = 1 -> "1" [] d = 2 -> "2" [] d = 3 -> "3"
    [] d = 4 -> "4" [] d = 5 -> "5" [] d = 6 -> "6" [] d = 7 -> "7"
    [] d = 8 -> "8" [] d = 9 -> "9"

\* decimal rendering of a non-negative integer, as in an f-string
RECURSIVE IntToStr(_)
IntToStr(n) == IF n < 10 THEN <<DigitChar(n)>>
               ELSE IntToStr(n \div 10) \o <<DigitChar(n % 10)>>

\* characters outside "0".."9" that str.isdigit() accepts (Unicode
\* Numeric_Type=Digit) and the regular expression class \d does not: the
\* superscript digits stand for them
SuperscriptDigits == {"¹", "²", "³"}

\* str.isdigit(): non-empty and every character a digit
IsDigitStr(s) ==
  Len(s) > 0 /\ \A i \in 1..Len(s) : s[i] \in Digits \cup SuperscriptDigits

(***************************************************************************)
(* Input pools                                                             *)
(***************************************************************************)
EnrollmentCodes == {<<"2", "0", "1">>, <<"2", "0">>, <<"2", "a", "1">>}

\* values random.randint(1000, 9999) may return
RandomParts == {1000, 1001}

Names == {"", "Ann"}

EmailInputs ==
  {<<"a", "@", "x", ".", "i", "o">>,
   <<"b", "@", "y", ".", "i", "o">>,
   <<"a", "b">>}

Id1000 == <<"2", "0", "1", "-", "1", "0", "0", "0">>
Id2000 == <<"2", "0", "2", "-", "1", "0", "0", "0">>
IdBad == <<"2", "0", "2", "1", "0", "0", "0">>

\* identifiers a caller may type; <<>> is the empty / missing identifier
StudentIdInputs == {Id1000, Id2000, IdBad, <<>>}

\* text a caller may type where a student identifier or an enrollment code
\* is asked for, beyond the plain cases above
IdNewline == Id2000 \o <<"\n">>
NewIdInputs == StudentIdInputs \cup {IdNewline}
EnrollmentCodeInputs == EnrollmentCodes \cup {<<"²", "³", "¹">>}

CourseNames == {"", "Math"}
CourseCodes == {<<>>, <<"M", "1">>, <<"P", "1">>}
CreditInputs == {0, 3}
CourseIdInputs == 0..MaxCourseSeq
GradeIdInputs == 0..MaxGradeSeq
GradeInputs == {-1, 55, 95, 101}

(***************************************************************************)
(* app/utils                                                               *)
(***************************************************************************)
\* generate_student_id: [ok |-> FALSE] stands for the ValueError
generate_student_id(enrollment_code, random_part) ==
  IF ~IsDigitStr(enrollment_code) \/ Len(enrollment_code) # 3
  THEN [ok |-> FALSE, id |-> <<>>]
  ELSE [ok |-> TRUE, id |-> enrollment_code \o <<"-">> \o IntToStr(random_part)]

LocalChars == Letters \cup Digits \cup {".", "_", "%", "+", "-"}
DomainChars == Letters \cup Digits \cup {".", "-"}

\* ^[a-zA-Z0-9._%+-]+@[a-zA-Z0-9.-]+\.[a-zA-Z]{2,}$ ; "$" also matches
\* before one trailing newline
EmailPatternMatches(e) ==
  \E n \in {Len(e)} \cup {m \in {Len(e) - 1} : m >= 1 /\ e[m + 1] = "\n"} :
    \E i \in 2..n : \E j \in (i + 2)..(n - 2) :
      /\ e[i] = "@"
      /\ \A k \in 1..(i - 1) : e[k] \in LocalChars
      /\ \A k \in (i + 1)..(j - 1) : e[k] \in DomainChars
      /\ e[j] = "."
      /\ \A k \in (j + 1)..n : e[k] \in Letters

validate_email(email) ==
  IF email = <<>> THEN [valid |-> FALSE, error |-> "Email cannot be empty"]
  ELSE IF ~EmailPatternMatches(email)
       THEN [valid |-> FALSE, error |-> "Invalid email format"]
       ELSE [valid |-> TRUE, error |-> "None"]

EmailSuffix == <<"@", "o", "u", "t", "l", "o", "o", "k", ".", "c", "o", "m">>

\* variant: the suffix appended to the whole text
standardize_email_whole(email) == email \o EmailSuffix

standardize_email(email) ==
  LET ats == {i \in 1..Len(email) : email[i] = "@"}
      local_part == IF ats # {}
                    THEN SubSeq(email, 1, (CHOOSE i \in ats : \A k \in ats : i <= k) - 1)
                    ELSE email
  IN local_part \o EmailSuffix

\* re.match(r'^\d{3}-\d{4}$', new_id)
StudentIdPatternMatches(s) ==
  \E n \in {Len(s)} \cup {m \in {Len(s) - 1} : m >= 1 /\ s[m + 1] = "\n"} :
    /\ n = 8
    /\ \A k \in 1..3 : s[k] \in Digits
    /\ s[4] = "-"
    /\ \A k \in 5..8 : s[k] \in Digits

(***************************************************************************)
(* The store: a record of the three tables and the two id sequences        *)
(***************************************************************************)
Cur == [students |-> students, courses |-> courses, grades |-> grades,
        courseSeq |-> courseSeq, gradeSeq |-> gradeSeq]

(***************************************************************************)
(* app/database/schema.py: the constraints of the three tables             *)
(***************************************************************************)
\* variant: the students table declared without UNIQUE on email
StudentsAcceptsAnyEmail(others, row) ==
  \A t \in others : t.student_id # row.student_id

\* students: student_id PRIMARY KEY, email UNIQUE; others = the rows the
\* statement does not write
StudentsAccepts(others, row) ==
  \A t \in others : t.student_id # row.student_id /\ t.email # row.email

\* variant: the courses table declared without UNIQUE on code
CoursesAcceptsAnyCode(others, row) == \A t \in others : t.id # row.id

\* courses: id PRIMARY KEY, code UNIQUE
CoursesAccepts(others, row) ==
  \A t \in others : t.id # row.id /\ t.code # row.code

\* variant: the grades table declared without its foreign keys
GradesForeignKeysUnchecked(d, row) == TRUE

\* grades: FOREIGN KEY(student_id), FOREIGN KEY(course_id)
GradesForeignKeysOk(d, row) ==
  /\ \E s \in d.students : s.student_id = row.student_id
  /\ \E c \in d.courses : c.id = row.course_id

\* variant: the grades table declared without UNIQUE(student_id, course_id)
GradesConflictNone(G, row) == {}

\* grades: UNIQUE(student_id, course_id)
GradesConflict(G, row) ==
  {g \in G : g.student_id = row.student_id /\ g.course_id = row.course_id}

\* variant: student foreign key without ON DELETE CASCADE
CascadeDeleteStudentNone(G, student_id) == G

\* FOREIGN KEY(student_id) ... ON DELETE CASCADE
CascadeDeleteStudent(G, student_id) == {g \in G : g.student_id # student_id}

\* variant: student foreign key without ON UPDATE CASCADE
CascadeUpdateStudentNone(G, old_id, new_id) == G

\* FOREIGN KEY(student_id) ... ON UPDATE CASCADE
CascadeUpdateStudent(G, old_id, new_id) ==
  {IF g.student_id = old_id THEN [g EXCEPT !.student_id = new_id] ELSE g : g \in G}

\* variant: course foreign key without ON DELETE CASCADE
CascadeDeleteCourseNone(G, course_id) == G

\* FOREIGN KEY(course_id) ... ON DELETE CASCADE
CascadeDeleteCourse(G, course_id) == {g \in G : g.course_id # course_id}

\* variant: CREATE TABLE IF NOT EXISTS, without the DROP statements
create_tables_if_missing(d) == d

\* create_tables: the three tables dropped and created again, empty, with
\* their id sequences at the start
create_tables(d) ==
  [d EXCEPT !.students = {}, !.courses = {}, !.grades = {},
            !.courseSeq = 1, !.gradeSeq = 1]

\* enrollment codes seed_data picks from
SeedEnrollmentCodes == {<<"2", "0", "1">>, <<"2", "0", "2">>}

\* grade = random.randint(30, 49) if random.random() < 0.2
\*         else random.randint(50, 100)
SeedGrades == (30..49) \cup (50..100)

\* seed_data on the tables create_tables left, with the sample lists cut
\* to one student and one course: the student INSERT, the course INSERT,
\* then one grade INSERT for every (student, course) in the tables.
seed_data(d, enroll_code, random_part, grade) ==
  LET student == [student_id |-> generate_student_id(enroll_code, random_part).id,
                  name |-> "Alice Johnson",
                  email |-> standardize_email(<<"a", "l", "i", "c", "e", "@", "e", "x", ".", "c", "o", "m">>)]
      course == [id |-> d.courseSeq, name |-> "Mathematics",
                 code |-> <<"M", "A", "T", "H", "1", "0", "1">>, credits |-> 3]
      d1 == IF StudentsAccepts(d.students, student)
            THEN [d EXCEPT !.students = d.students \cup {student}] ELSE d
      d2 == IF CoursesAccepts(d1.courses, course)
            THEN [d1 EXCEPT !.courses = d1.courses \cup {course},
                            !.courseSeq = d1.courseSeq + 1]
            ELSE [d1 EXCEPT !.courseSeq = d1.courseSeq + 1]
      row == [id |-> d2.gradeSeq, student_id |-> student.student_id,
              course_id |-> course.id, grade |-> grade]
  IN IF d2.students = {} \/ d2.courses = {}
     THEN [ok |-> FALSE, msg |-> "Cannot assign grades: No students or courses found",
           db |-> d2]
     ELSE IF GradesForeignKeysOk(d2, row) /\ GradesConflict(d2.grades, row) = {}
          THEN [ok |-> TRUE, msg |-> "Sample data seeded successfully",
                db |-> [d2 EXCEPT !.grades = d2.grades \cup {row},
                                  !.gradeSeq = d2.gradeSeq + 1]]
          ELSE [ok |-> TRUE, msg |-> "Sample data seeded successfully",
                db |-> [d2 EXCEPT !.gradeSeq = d2.gradeSeq + 1]]

(***************************************************************************)
(* app/models/student.py.  A result with ok = FALSE is a raised exception: *)
(* get_cursor rolled the transaction back.                                 *)
(***************************************************************************)
Student_get_by_id(d, student_id) == {s \in d.students : s.student_id = student_id}

Student_save(d, self) ==
  LET row == [student_id |-> self.student_id, name |-> self.name,
              email |-> standardize_email(self.email)]
      others == {t \in d.students : t.student_id # self.student_id}
  IN IF \E t \in d.students : t.student_id = self.student_id
     THEN \* UPDATE students SET name, email WHERE student_id
          IF \A t \in others : t.email # row.email
          THEN [ok |-> TRUE, db |-> [d EXCEPT !.students = others \cup {row}]]
          ELSE [ok |-> FALSE, db |-> d]
     ELSE \* INSERT INTO students
          IF StudentsAccepts(d.students, row)
          THEN [ok |-> TRUE, db |-> [d EXCEPT !.students = d.students \cup {row}]]
          ELSE [ok |-> FALSE, db |-> d]

Student_delete(d, student_id) ==
  LET hit == Student_get_by_id(d, student_id)
  IN [ok |-> TRUE, rows |-> Cardinality(hit),
      db |-> IF hit = {} THEN d
             ELSE [d EXCEPT !.students = d.students \ hit,
                            !.grades = CascadeDeleteStudent(d.grades, student_id)]]

Student_update_id(d, old_id, new_id) ==
  LET hit == Student_get_by_id(d, old_id)
      others == d.students \ hit
      moved == {[s EXCEPT !.student_id = new_id] : s \in hit}
  IN IF hit = {} THEN [ok |-> TRUE, rows |-> 0, db |-> d]
     ELSE IF \E r \in moved : ~StudentsAccepts(others, r)
          THEN [ok |-> FALSE, rows |-> 0, db |-> d]
          ELSE [ok |-> TRUE, rows |-> Cardinality(hit),
                db |-> [d EXCEPT !.students = others \cup moved,
                                 !.grades = CascadeUpdateStudent(d.grades, old_id, new_id)]]

(***************************************************************************)
(* app/models/course.py                                                    *)
(***************************************************************************)
Course_get_by_id(d, course_id) == {c \in d.courses : c.id = course_id}

\* variant: the lookup by code never finds a course
Course_get_by_code_none(d, code) == {}

Course_get_by_code(d, code) == {c \in d.courses : c.code = code}

\* id = 0 is a new course; the INSERT draws the next value of the id
\* sequence, which is not given back when the statement fails
Course_save(d, self) ==
  IF self.id # 0
  THEN LET hit == Course_get_by_id(d, self.id)
           others == d.courses \ hit
       IN IF hit = {} THEN [ok |-> TRUE, id |-> self.id, db |-> d]
          ELSE IF \A t \in others : t.code # self.code
               THEN [ok |-> TRUE, id |-> self.id,
                     db |-> [d EXCEPT !.courses = others \cup {self}]]
               ELSE [ok |-> FALSE, id |-> self.id, db |-> d]
  ELSE LET row == [self EXCEPT !.id = d.courseSeq]
           drawn == [d EXCEPT !.courseSeq = d.courseSeq + 1]
       IN IF CoursesAccepts(d.courses, row)
          THEN [ok |-> TRUE, id |-> row.id,
                db |-> [drawn EXCEPT !.courses = d.courses \cup {row}]]
          ELSE [ok |-> FALSE, id |-> 0, db |-> drawn]

Course_delete(d, course_id) ==
  LET hit == Course_get_by_id(d, course_id)
  IN [ok |-> TRUE, rows |-> Cardinality(hit),
      db |-> IF hit = {} THEN d
             ELSE [d EXCEPT !.courses = d.courses \ hit,
                            !.grades = CascadeDeleteCourse(d.grades, course_id)]]

(***************************************************************************)
(* app/models/grade.py                                                     *)
(***************************************************************************)
\* FROM grades g JOIN students s ON ... JOIN courses c ON ...
Joined(d) ==
  {g \in d.grades : /\ \E s \in d.students : g.student_id = s.student_id
                    /\ \E c \in d.courses : g.course_id = c.id}

Grade_get_by_id(d, grade_id) == {g \in Joined(d) : g.id = grade_id}

Grade_get_by_student_course(d, student_id, course_id) ==
  {g \in Joined(d) : g.student_id = student_id /\ g.course_id = course_id}

Grade_get_student_grades(d, student_id) ==
  {g \in Joined(d) : g.student_id = student_id}

\* variant: ON CONFLICT ... DO NOTHING
OnConflictDoNothing(g, self) == g

\* DO UPDATE SET grade = EXCLUDED.grade
OnConflictDoUpdate(g, self) == [g EXCEPT !.grade = self.grade]

\* id = 0 is a new grade: INSERT ... ON CONFLICT (student_id, course_id)
\* DO UPDATE SET grade = EXCLUDED.grade RETURNING id.  The INSERT draws the
\* next value of the id sequence also when it ends as an update or fails.
\* variant: UPDATE grades SET grade = %s WHERE course_id = %s
Grade_save_whole_course(d, self) ==
  IF self.id # 0
  THEN [ok |-> TRUE, id |-> self.id,
        db |-> [d EXCEPT !.grades =
                  {IF g.course_id = self.course_id THEN [g EXCEPT !.grade = self.grade] ELSE g
                     : g \in d.grades}]]
  ELSE LET row == [self EXCEPT !.id = d.gradeSeq]
           drawn == [d EXCEPT !.gradeSeq = d.gradeSeq + 1]
           conflict == GradesConflict(d.grades, row)
       IN IF ~GradesForeignKeysOk(d, row)
          THEN [ok |-> FALSE, id |-> 0, db |-> drawn]
          ELSE IF conflict # {}
               THEN [ok |-> TRUE, id |-> (CHOOSE g \in conflict : TRUE).id,
                     db |-> [drawn EXCEPT !.grades =
                               (d.grades \ conflict) \cup
                               {OnConflictDoUpdate(g, self) : g \in conflict}]]
               ELSE [ok |-> TRUE, id |-> row.id,
                     db |-> [drawn EXCEPT !.grades = d.grades \cup {row}]]

Grade_save(d, self) ==
  IF self.id # 0
  THEN [ok |-> TRUE, id |-> self.id,
        db |-> [d EXCEPT !.grades =
                  {IF g.id = self.id THEN [g EXCEPT !.grade = self.grade] ELSE g
                     : g \in d.grades}]]
  ELSE LET row == [self EXCEPT !.id = d.gradeSeq]
           drawn == [d EXCEPT !.gradeSeq = d.gradeSeq + 1]
           conflict == GradesConflict(d.grades, row)
       IN IF ~GradesForeignKeysOk(d, row)
          THEN [ok |-> FALSE, id |-> 0, db |-> drawn]
          ELSE IF conflict # {}
               THEN [ok |-> TRUE, id |-> (CHOOSE g \in conflict : TRUE).id,
                     db |-> [drawn EXCEPT !.grades =
                               (d.grades \ conflict) \cup
                               {OnConflictDoUpdate(g, self) : g \in conflict}]]
               ELSE [ok |-> TRUE, id |-> row.id,
                     db |-> [drawn EXCEPT !.grades = d.grades \cup {row}]]

Grade_delete(d, grade_id) ==
  LET hit == {g \in d.grades : g.id = grade_id}
  IN [ok |-> TRUE, rows |-> Cardinality(hit),
      db |-> [d EXCEPT !.grades = d.grades \ hit]]

(***************************************************************************)
(* Service layer: each operator is one call run start to finish on store   *)
(* d, returning the (success, message) pair and the store it leaves.       *)
(***************************************************************************)
Ret(ok, msg, d) == [ok |-> ok, msg |-> msg, db |-> d]

\* variant: the except clause reports the call as done
ExceptReturnsSuccess(msg, d) == Ret(TRUE, msg, d)

\* except Exception as e: return False, f"Error ...: {str(e)}"
ExceptReturn(msg, d) == Ret(FALSE, msg, d)

\* the store d with its connection failing: every statement a cursor
\* executes raises, and get_cursor rolls back
Failing(d) ==
  [students |-> d.students, courses |-> d.courses, grades |-> d.grades,
   courseSeq |-> d.courseSeq, gradeSeq |-> d.gradeSeq, down |-> TRUE]

Down(d) == "down" \in DOMAIN d

\* app/services/student_service.py
add_student(d, name, email, enrollment_code, random_part) ==
  IF name = "" THEN Ret(FALSE, "Student name cannot be empty", d)
  ELSE IF enrollment_code = <<>> THEN Ret(FALSE, "Enrollment code is required", d)
  ELSE IF ~IsDigitStr(enrollment_code) \/ Len(enrollment_code) # 3
       THEN Ret(FALSE, "Enrollment code must be a 3-digit number", d)
  ELSE IF ~validate_email(email).valid THEN Ret(FALSE, validate_email(email).error, d)
  ELSE IF Down(d) THEN ExceptReturn("Error adding student", d)
  ELSE LET gen == generate_student_id(enrollment_code, random_part)
           sv == Student_save(d, [student_id |-> gen.id, name |-> name,
                                  email |-> standardize_email(email)])
       IN IF ~gen.ok THEN ExceptReturn("Error adding student", d)
          ELSE IF ~sv.ok THEN ExceptReturn("Error adding student", sv.db)
          ELSE Ret(TRUE, "Student added successfully with ID", sv.db)

update_student(d, old_id, new_id, name, email) ==
  IF old_id = <<>> THEN Ret(FALSE, "Current student ID is required", d)
  ELSE IF name = "" THEN Ret(FALSE, "Student name cannot be empty", d)
  ELSE IF ~validate_email(email).valid THEN Ret(FALSE, validate_email(email).error, d)
  ELSE IF Down(d) THEN ExceptReturn("Error updating student", d)
  ELSE IF Student_get_by_id(d, old_id) = {}
       THEN Ret(FALSE, "Student with ID not found", d)
  ELSE IF new_id # <<>> /\ new_id # old_id
       THEN IF ~StudentIdPatternMatches(new_id)
            THEN Ret(FALSE, "New student ID must be in format XXX-YYYY", d)
            ELSE LET up == Student_update_id(d, old_id, new_id)
                     sv == Student_save(up.db, [student_id |-> new_id, name |-> name,
                                                email |-> standardize_email(email)])
                 IN IF ~up.ok THEN ExceptReturn("Error updating student", up.db)
                    ELSE IF up.rows = 0 THEN Ret(FALSE, "Failed to update student ID", up.db)
                    ELSE IF ~sv.ok THEN ExceptReturn("Error updating student", sv.db)
                    ELSE Ret(TRUE, "Student updated successfully", sv.db)
       ELSE LET sv == Student_save(d, [student_id |-> old_id, name |-> name,
                                       email |-> standardize_email(email)])
            IN IF ~sv.ok THEN ExceptReturn("Error updating student", sv.db)
               ELSE Ret(TRUE, "Student updated successfully", sv.db)

delete_student(d, student_id) ==
  IF student_id = <<>> THEN Ret(FALSE, "Student ID is required", d)
  ELSE IF Down(d) THEN ExceptReturn("Error deleting student", d)
  ELSE IF Student_get_by_id(d, student_id) = {}
       THEN Ret(FALSE, "Student with ID not found", d)
  ELSE LET del == Student_delete(d, student_id)
       IN IF ~del.ok THEN ExceptReturn("Error deleting student", del.db)
          ELSE IF del.rows = 0 THEN Ret(FALSE, "Failed to delete student", del.db)
          ELSE Ret(TRUE, "Student deleted successfully", del.db)

\* app/services/course_service.py
add_course(d, name, code, credits) ==
  IF name = "" THEN Ret(FALSE, "Course name cannot be empty", d)
  ELSE IF code = <<>> THEN Ret(FALSE, "Course code is required", d)
  ELSE IF credits <= 0 THEN Ret(FALSE, "Credits must be a positive number", d)
  ELSE IF Down(d) THEN ExceptReturn("Error adding course", d)
  ELSE IF Course_get_by_code(d, code) # {}
       THEN Ret(FALSE, "Course with code already exists", d)
  ELSE LET sv == Course_save(d, [id |-> 0, name |-> name, code |-> code,
                                 credits |-> credits])
       IN IF ~sv.ok THEN ExceptReturn("Error adding course", sv.db)
          ELSE Ret(TRUE, "Course added successfully with ID", sv.db)

update_course(d, course_id, name, code, credits) ==
  IF course_id <= 0 THEN Ret(FALSE, "Invalid course ID", d)
  ELSE IF name = "" THEN Ret(FALSE, "Course name cannot be empty", d)
  ELSE IF code = <<>> THEN Ret(FALSE, "Course code is required", d)
  ELSE IF credits <= 0 THEN Ret(FALSE, "Credits must be a positive number", d)
  ELSE IF Down(d) THEN ExceptReturn("Error updating course", d)
  ELSE IF Course_get_by_id(d, course_id) = {}
       THEN Ret(FALSE, "Course with ID not found", d)
  ELSE LET course == CHOOSE c \in Course_get_by_id(d, course_id) : TRUE
           sv == Course_save(d, [id |-> course.id, name |-> name, code |-> code,
                                 credits |-> credits])
       IN IF code # course.code
             /\ \E e \in Course_get_by_code(d, code) : e.id # course_id
          THEN Ret(FALSE, "Course with code already exists", d)
          ELSE IF ~sv.ok THEN ExceptReturn("Error updating course", sv.db)
          ELSE Ret(TRUE, "Course updated successfully", sv.db)

delete_course(d, course_id) ==
  IF course_id <= 0 THEN Ret(FALSE, "Invalid course ID", d)
  ELSE IF Down(d) THEN ExceptReturn("Error deleting course", d)
  ELSE IF Course_get_by_id(d, course_id) = {}
       THEN Ret(FALSE, "Course with ID not found", d)
  ELSE LET del == Course_delete(d, course_id)
       IN IF ~del.ok THEN ExceptReturn("Error deleting course", del.db)
          ELSE IF del.rows = 0 THEN Ret(FALSE, "Failed to delete course", del.db)
          ELSE Ret(TRUE, "Course deleted successfully", del.db)

\* app/services/grade_service.py
\* variant: add_grade without the test of the value against 0 and 100
add_grade_any_value(d, student_id, course_id, grade_value) ==
  IF student_id = <<>> THEN Ret(FALSE, "Student ID is required", d)
  ELSE IF course_id <= 0 THEN Ret(FALSE, "Invalid course ID", d)
  ELSE IF Down(d) THEN ExceptReturn("Error assigning grade", d)
  ELSE IF Student_get_by_id(d, student_id) = {}
       THEN Ret(FALSE, "Student with ID not found", d)
  ELSE IF Course_get_by_id(d, course_id) = {}
       THEN Ret(FALSE, "Course with ID not found", d)
  ELSE LET sv == Grade_save(d, [id |-> 0, student_id |-> student_id,
                                course_id |-> course_id, grade |-> grade_value])
       IN IF ~sv.ok THEN ExceptReturn("Error assigning grade", sv.db)
          ELSE Ret(TRUE, "Grade assigned successfully", sv.db)

add_grade(d, student_id, course_id, grade_value) ==
  IF student_id = <<>> THEN Ret(FALSE, "Student ID is required", d)
  ELSE IF course_id <= 0 THEN Ret(FALSE, "Invalid course ID", d)
  ELSE IF grade_value < 0 \/ grade_value > 100
       THEN Ret(FALSE, "Grade must be between 0 and 100", d)
  ELSE IF Down(d) THEN ExceptReturn("Error assigning grade", d)
  ELSE IF Student_get_by_id(d, student_id) = {}
       THEN Ret(FALSE, "Student with ID not found", d)
  ELSE IF Course_get_by_id(d, course_id) = {}
       THEN Ret(FALSE, "Course with ID not found", d)
  ELSE LET sv == Grade_save(d, [id |-> 0, student_id |-> student_id,
                                course_id |-> course_id, grade |-> grade_value])
       IN IF ~sv.ok THEN ExceptReturn("Error assigning grade", sv.db)
          ELSE Ret(TRUE, "Grade assigned successfully", sv.db)

\* variant: update_grade without the test of the value against 0 and 100
update_grade_any_value(d, grade_id, grade_value) ==
  IF grade_id <= 0 THEN Ret(FALSE, "Invalid grade ID", d)
  ELSE IF Down(d) THEN ExceptReturn("Error updating grade", d)
  ELSE IF Grade_get_by_id(d, grade_id) = {}
       THEN Ret(FALSE, "Grade with ID not found", d)
  ELSE LET grade == CHOOSE g \in Grade_get_by_id(d, grade_id) : TRUE
           sv == Grade_save(d, [grade EXCEPT !.grade = grade_value])
       IN IF ~sv.ok THEN ExceptReturn("Error updating grade", sv.db)
          ELSE Ret(TRUE, "Grade updated successfully", sv.db)

update_grade(d, grade_id, grade_value) ==
  IF grade_id <= 0 THEN Ret(FALSE, "Invalid grade ID", d)
  ELSE IF grade_value < 0 \/ grade_value > 100
       THEN Ret(FALSE, "Grade must be between 0 and 100", d)
  ELSE IF Down(d) THEN ExceptReturn("Error updating grade", d)
  ELSE IF Grade_get_by_id(d, grade_id) = {}
       THEN Ret(FALSE, "Grade with ID not found", d)
  ELSE LET grade == CHOOSE g \in Grade_get_by_id(d, grade_id) : TRUE
           sv == Grade_save(d, [grade EXCEPT !.grade = grade_value])
       IN IF ~sv.ok THEN ExceptReturn("Error updating grade", sv.db)
          ELSE Ret(TRUE, "Grade updated successfully", sv.db)

\* variant: update_grade_by_student_course without the test of the value
\* against 0 and 100
update_grade_by_student_course_any_value(d, student_id, course_id, grade_value) ==
  IF student_id = <<>> THEN Ret(FALSE, "Student ID is required", d)
  ELSE IF course_id <= 0 THEN Ret(FALSE, "Invalid course ID", d)
  ELSE IF Down(d) THEN ExceptReturn("Error updating grade", d)
  ELSE IF Student_get_by_id(d, student_id) = {}
       THEN Ret(FALSE, "Student with ID not found", d)
  ELSE IF Course_get_by_id(d, course_id) = {}
       THEN Ret(FALSE, "Course with ID not found", d)
  ELSE LET found == Grade_get_by_student_course(d, student_id, course_id)
           grade == IF found # {}
                    THEN [(CHOOSE g \in found : TRUE) EXCEPT !.grade = grade_value]
                    ELSE [id |-> 0, student_id |-> student_id,
                          course_id |-> course_id, grade |-> grade_value]
           sv == Grade_save(d, grade)
       IN IF ~sv.ok THEN ExceptReturn("Error updating grade", sv.db)
          ELSE Ret(TRUE, "Grade updated successfully", sv.db)

update_grade_by_student_course(d, student_id, course_id, grade_value) ==
  IF student_id = <<>> THEN Ret(FALSE, "Student ID is required", d)
  ELSE IF course_id <= 0 THEN Ret(FALSE, "Invalid course ID", d)
  ELSE IF grade_value < 0 \/ grade_value > 100
       THEN Ret(FALSE, "Grade must be between 0 and 100", d)
  ELSE IF Down(d) THEN ExceptReturn("Error updating grade", d)
  ELSE IF Student_get_by_id(d, student_id) = {}
       THEN Ret(FALSE, "Student with ID not found", d)
  ELSE IF Course_get_by_id(d, course_id) = {}
       THEN Ret(FALSE, "Course with ID not found", d)
  ELSE LET found == Grade_get_by_student_course(d, student_id, course_id)
           grade == IF found # {}
                    THEN [(CHOOSE g \in found : TRUE) EXCEPT !.grade = grade_value]
                    ELSE [id |-> 0, student_id |-> student_id,
                          course_id |-> course_id, grade |-> grade_value]
           sv == Grade_save(d, grade)
       IN IF ~sv.ok THEN ExceptReturn("Error updating grade", sv.db)
          ELSE Ret(TRUE, "Grade updated successfully", sv.db)

delete_grade(d, grade_id) ==
  IF grade_id <= 0 THEN Ret(FALSE, "Invalid grade ID", d)
  ELSE IF Down(d) THEN ExceptReturn("Error deleting grade", d)
  ELSE IF Grade_get_by_id(d, grade_id) = {}
       THEN Ret(FALSE, "Grade with ID not found", d)
  ELSE LET del == Grade_delete(d, grade_id)
       IN IF ~del.ok THEN ExceptReturn("Error deleting grade", del.db)
          ELSE IF del.rows = 0 THEN Ret(FALSE, "Failed to delete grade", del.db)
          ELSE Ret(TRUE, "Grade deleted successfully", del.db)

(***************************************************************************)
(* State machine.  last is the call that returned in the latest step: its  *)
(* operation, arguments, success flag and message.  It is NoEvent when no  *)
(* call returned in that step, or the call returned failure and left the   *)
(* store as it was.                                                        *)
(***************************************************************************)
Procs == {"p1", "p2"}

NoEvent == [op |-> "none", args |-> <<>>, ok |-> TRUE, msg |-> ""]

NoGrade == [id |-> 0, student_id |-> <<>>, course_id |-> 0, grade |-> 0]

NoLoc == [op |-> "none", grade |-> NoGrade]

Init ==
  /\ students = {}
  /\ courses = {}
  /\ grades = {}
  /\ courseSeq = 1
  /\ gradeSeq = 1
  /\ last = NoEvent
  /\ pc = [p \in Procs |-> "idle"]
  /\ loc = [p \in Procs |-> NoLoc]

\* the id sequences stay within the modelled range
WithinBounds(d) == d.courseSeq <= MaxCourseSeq + 1 /\ d.gradeSeq <= MaxGradeSeq + 1

Commit(d) ==
  /\ WithinBounds(d)
  /\ students' = d.students
  /\ courses' = d.courses
  /\ grades' = d.grades
  /\ courseSeq' = d.courseSeq
  /\ gradeSeq' = d.gradeSeq

\* a whole call that runs without another caller's transaction in between
Outcome(op, args, r) ==
  IF ~r.ok /\ r.db = Cur THEN NoEvent
  ELSE [op |-> op, args |-> args, ok |-> r.ok, msg |-> r.msg]

Call(op, args, r) ==
  /\ Commit(r.db)
  /\ last' = Outcome(op, args, r)
  /\ UNCHANGED <<pc, loc>>

AddStudent ==
  \E name \in Names, email \in EmailInputs, code \in EnrollmentCodes,
     random_part \in RandomParts :
    Call("add_student", <<name, email, code, random_part>>, add_student(Cur, name, email, code, random_part))

UpdateStudent ==
  \E old_id \in StudentIdInputs, new_id \in StudentIdInputs,
     name \in Names, email \in EmailInputs :
    Call("update_student", <<old_id, new_id, name, email>>, update_student(Cur, old_id, new_id, name, email))

DeleteStudent ==
  \E student_id \in StudentIdInputs :
    Call("delete_student", <<student_id>>, delete_student(Cur, student_id))

AddCourse ==
  \E name \in CourseNames, code \in CourseCodes, credits \in CreditInputs :
    Call("add_course", <<name, code, credits>>, add_course(Cur, name, code, credits))

UpdateCourse ==
  \E course_id \in CourseIdInputs, name \in CourseNames, code \in CourseCodes,
     credits \in CreditInputs :
    Call("update_course", <<course_id, name, code, credits>>, update_course(Cur, course_id, name, code, credits))

DeleteCourse ==
  \E course_id \in CourseIdInputs :
    Call("delete_course", <<course_id>>, delete_course(Cur, course_id))

AddGrade ==
  \E student_id \in StudentIdInputs, course_id \in CourseIdInputs,
     grade_value \in GradeInputs :
    Call("add_grade", <<student_id, course_id, grade_value>>, add_grade(Cur, student_id, course_id, grade_value))

UpdateGrade ==
  \E grade_id \in GradeIdInputs, grade_value \in GradeInputs :
    Call("update_grade", <<grade_id, grade_value>>, update_grade(Cur, grade_id, grade_value))

UpdateGradeByStudentCourse ==
  \E student_id \in StudentIdInputs, course_id \in CourseIdInputs,
     grade_value \in GradeInputs :
    Call("update_grade_by_student_course", <<student_id, course_id, grade_value>>,
         update_grade_by_student_course(Cur, student_id, course_id, grade_value))

DeleteGrade ==
  \E grade_id \in GradeIdInputs :
    Call("delete_grade", <<grade_id>>, delete_grade(Cur, grade_id))

Next ==
  \/ AddStudent
  \/ UpdateStudent
  \/ DeleteStudent
  \/ AddCourse
  \/ UpdateCourse
  \/ DeleteCourse
  \/ AddGrade
  \/ UpdateGrade
  \/ UpdateGradeByStudentCourse
  \/ DeleteGrade

Spec == Init /\ [][Next]_vars

(***************************************************************************)
(* Concurrent callers.  A caller in Procs runs add_grade or                *)
(* update_grade_by_student_course one transaction at a time, so that other *)
(* callers' transactions fall between its existence checks and its write.  *)
(* loc[p].grade is the Grade object the call builds or reads.              *)
(***************************************************************************)
UpsertOps == {"add_grade", "update_grade_by_student_course"}

\* entry of the call: the argument checks before the try block
Begin(p, op, student_id, course_id, grade_value) ==
  /\ pc[p] = "idle"
  /\ student_id # <<>>
  /\ course_id > 0
  /\ ~(grade_value < 0 \/ grade_value > 100)
  /\ pc' = [pc EXCEPT ![p] = "check_student"]
  /\ loc' = [loc EXCEPT ![p] = [op |-> op,
                                grade |-> [id |-> 0, student_id |-> student_id,
                                           course_id |-> course_id,
                                           grade |-> grade_value]]]
  /\ last' = NoEvent
  /\ UNCHANGED <<students, courses, grades, courseSeq, gradeSeq>>

BeginUpsert(p) ==
  \E op \in UpsertOps, student_id \in StudentIdInputs,
     course_id \in CourseIdInputs, grade_value \in GradeInputs :
    Begin(p, op, student_id, course_id, grade_value)

\* entry of update_grade: the argument checks before the try block
BeginUpdateGrade(p) ==
  \E grade_id \in GradeIdInputs, grade_value \in GradeInputs :
    /\ pc[p] = "idle"
    /\ grade_id > 0
    /\ ~(grade_value < 0 \/ grade_value > 100)
    /\ pc' = [pc EXCEPT ![p] = "get_grade"]
    /\ loc' = [loc EXCEPT ![p] = [op |-> "update_grade",
                                  grade |-> [id |-> grade_id, student_id |-> <<>>,
                                             course_id |-> 0,
                                             grade |-> grade_value]]]
    /\ last' = NoEvent
    /\ UNCHANGED <<students, courses, grades, courseSeq, gradeSeq>>

Return(p, r) ==
  /\ Commit(r.db)
  /\ last' = Outcome(loc[p].op,
                     IF loc[p].op = "update_grade"
                     THEN <<loc[p].grade.id, loc[p].grade.grade>>
                     ELSE <<loc[p].grade.student_id, loc[p].grade.course_id,
                            loc[p].grade.grade>>, r)
  /\ pc' = [pc EXCEPT ![p] = "idle"]
  /\ loc' = [loc EXCEPT ![p] = NoLoc]

Goto(p, label) ==
  /\ pc' = [pc EXCEPT ![p] = label]
  /\ last' = NoEvent
  /\ UNCHANGED <<students, courses, grades, courseSeq, gradeSeq>>

\* student = Student.get_by_id(student_id)
CheckStudent(p) ==
  /\ pc[p] = "check_student"
  /\ IF Student_get_by_id(Cur, loc[p].grade.student_id) = {}
     THEN Return(p, Ret(FALSE, "Student with ID not found", Cur))
     ELSE Goto(p, "check_course") /\ UNCHANGED loc

\* course = Course.get_by_id(course_id)
CheckCourse(p) ==
  /\ pc[p] = "check_course"
  /\ IF Course_get_by_id(Cur, loc[p].grade.course_id) = {}
     THEN Return(p, Ret(FALSE, "Course with ID not found", Cur))
     ELSE Goto(p, IF loc[p].op = "add_grade" THEN "save_grade" ELSE "read_grade")
          /\ UNCHANGED loc

\* grade = Grade.get_by_student_course(student_id, course_id)
ReadGrade(p) ==
  /\ pc[p] = "read_grade"
  /\ LET found == Grade_get_by_student_course(Cur, loc[p].grade.student_id,
                                              loc[p].grade.course_id)
     IN loc' = [loc EXCEPT ![p].grade.id =
                  IF found # {} THEN (CHOOSE g \in found : TRUE).id ELSE 0]
  /\ Goto(p, "save_grade")

\* grade = Grade.get_by_id(grade_id); grade.grade = grade_value
GetGrade(p) ==
  /\ pc[p] = "get_grade"
  /\ LET found == Grade_get_by_id(Cur, loc[p].grade.id)
     IN IF found = {}
        THEN Return(p, Ret(FALSE, "Grade with ID not found", Cur))
        ELSE /\ loc' = [loc EXCEPT ![p].grade =
                         [(CHOOSE g \in found : TRUE) EXCEPT
                            !.grade = loc[p].grade.grade]]
             /\ Goto(p, "save_grade")

\* grade.save() and the return that follows it
SaveGrade(p) ==
  /\ pc[p] = "save_grade"
  /\ LET sv == Grade_save(Cur, loc[p].grade)
     IN IF ~sv.ok
        THEN Return(p, ExceptReturn(IF loc[p].op = "add_grade"
                                   THEN "Error assigning grade"
                                   ELSE "Error updating grade", sv.db))
        ELSE Return(p, Ret(TRUE, IF loc[p].op = "add_grade"
                                 THEN "Grade assigned successfully"
                                 ELSE "Grade updated successfully", sv.db))

Step(p) == CheckStudent(p) \/ CheckCourse(p) \/ ReadGrade(p) \/ SaveGrade(p)

\* a store with two students and a course, as left by two add_student
\* calls and one add_course call
InitConc ==
  /\ students = {[student_id |-> Id1000, name |-> "Ann",
                  email |-> standardize_email(<<"a", "@", "x", ".", "i", "o">>)],
                 [student_id |-> Id2000, name |-> "Ann",
                  email |-> standardize_email(<<"b", "@", "y", ".", "i", "o">>)]}
  /\ courses = {[id |-> 1, name |-> "Math", code |-> <<"M", "1">>, credits |-> 3]}
  /\ grades = {}
  /\ courseSeq = 2
  /\ gradeSeq = 1
  /\ last = NoEvent
  /\ pc = [p \in Procs |-> "idle"]
  /\ loc = [p \in Procs |-> NoLoc]

\* One caller runs its upserts transaction by transaction; every other
\* caller's call falls as a whole between two of its transactions.
NextConc ==
  \/ BeginUpsert("p1")
  \/ BeginUpdateGrade("p1")
  \/ GetGrade("p1")
  \/ Step("p1")
  \/ AddGrade
  \/ UpdateGradeByStudentCourse
  \/ UpdateStudent
  \/ DeleteStudent
  \/ DeleteCourse
  \/ DeleteGrade

SpecConc == InitConc /\ [][NextConc]_vars

(***************************************************************************)
(* Two callers that have both entered an upsert of the same (student,      *)
(* course) pair, each with its own value, in a store that holds the        *)
(* student and the course and zero or one grade for the pair.  Their       *)
(* transactions interleave in every order.                                 *)
(***************************************************************************)
UpsertValue == [p \in Procs |-> IF p = "p1" THEN 55 ELSE 95]

UpsertPair == [student_id |-> Id1000, course_id |-> 1]

InitUpsert ==
  /\ students = {[student_id |-> UpsertPair.student_id, name |-> "Ann",
                  email |-> standardize_email(<<"a", "@", "x", ".", "i", "o">>)]}
  /\ courses = {[id |-> UpsertPair.course_id, name |-> "Math", code |-> <<"M", "1">>,
                 credits |-> 3]}
  /\ courseSeq = 2
  /\ \/ grades = {} /\ gradeSeq = 1
     \/ /\ grades = {[id |-> 1, student_id |-> UpsertPair.student_id,
                       course_id |-> UpsertPair.course_id, grade |-> 70]}
        /\ gradeSeq = 2
  /\ last = NoEvent
  /\ pc = [p \in Procs |-> "check_student"]
  /\ \E ops \in [Procs -> UpsertOps] :
       loc = [p \in Procs |->
                [op |-> ops[p],
                 grade |-> [id |-> 0, student_id |-> UpsertPair.student_id,
                            course_id |-> UpsertPair.course_id, grade |-> UpsertValue[p]]]]

NextUpsert == \E p \in Procs : Step(p)

SpecUpsert == InitUpsert /\ [][NextUpsert]_vars

(***************************************************************************)
(* Concurrent course maintenance.  Two callers run add_course and          *)
(* update_course one transaction at a time (lookup by id, lookup by code,  *)
(* save), so that another caller's write falls between a caller's          *)
(* uniqueness check and its own write; delete_course calls fall in between *)
(* as a whole.  loc[p].course is the Course object the call saves.         *)
(***************************************************************************)
CourseOps == {"add_course", "update_course"}

\* entry of the call: the argument checks before the try block
BeginCourseOp(p, op, course_id, name, code, credits) ==
  /\ pc[p] = "idle"
  /\ IF op = "add_course" THEN course_id = 0 ELSE course_id > 0
  /\ name # ""
  /\ code # <<>>
  /\ credits > 0
  /\ pc' = [pc EXCEPT ![p] = IF op = "add_course" THEN "get_by_code" ELSE "get_course"]
  /\ loc' = [loc EXCEPT ![p] = [op |-> op,
                                course |-> [id |-> course_id, name |-> name,
                                            code |-> code, credits |-> credits]]]
  /\ last' = NoEvent
  /\ UNCHANGED <<students, courses, grades, courseSeq, gradeSeq>>

BeginCourse(p) ==
  \E op \in CourseOps, course_id \in CourseIdInputs, name \in CourseNames,
     code \in CourseCodes, credits \in CreditInputs :
    BeginCourseOp(p, op, course_id, name, code, credits)

CourseReturn(p, r) ==
  /\ Commit(r.db)
  /\ last' = Outcome(loc[p].op,
                     <<loc[p].course.id, loc[p].course.name, loc[p].course.code,
                       loc[p].course.credits>>, r)
  /\ pc' = [pc EXCEPT ![p] = "idle"]
  /\ loc' = [loc EXCEPT ![p] = NoLoc]

\* update_course: course = Course.get_by_id(course_id), then the
\* comparison of the new code with the code just read
GetCourse(p) ==
  /\ pc[p] = "get_course"
  /\ LET found == Course_get_by_id(Cur, loc[p].course.id)
     IN IF found = {}
        THEN CourseReturn(p, Ret(FALSE, "Course with ID not found", Cur))
        ELSE Goto(p, IF loc[p].course.code # (CHOOSE c \in found : TRUE).code
                     THEN "get_by_code" ELSE "save_course")
             /\ UNCHANGED loc

\* existing_course = Course.get_by_code(code)
GetByCode(p) ==
  /\ pc[p] = "get_by_code"
  /\ LET existing == Course_get_by_code(Cur, loc[p].course.code)
         taken == IF loc[p].op = "add_course" THEN existing # {}
                  ELSE \E e \in existing : e.id # loc[p].course.id
     IN IF taken
        THEN CourseReturn(p, Ret(FALSE, "Course with code already exists", Cur))
        ELSE Goto(p, "save_course") /\ UNCHANGED loc

\* course.save() and the return that follows it
SaveCourse(p) ==
  /\ pc[p] = "save_course"
  /\ LET sv == Course_save(Cur, loc[p].course)
     IN IF ~sv.ok
        THEN CourseReturn(p, ExceptReturn(IF loc[p].op = "add_course"
                                         THEN "Error adding course"
                                         ELSE "Error updating course", sv.db))
        ELSE CourseReturn(p, Ret(TRUE, IF loc[p].op = "add_course"
                                       THEN "Course added successfully with ID"
                                       ELSE "Course updated successfully", sv.db))

CourseStep(p) == GetCourse(p) \/ GetByCode(p) \/ SaveCourse(p)

NextCourse ==
  \/ \E p \in Procs : BeginCourse(p)
  \/ \E p \in Procs : CourseStep(p)
  \/ DeleteCourse

SpecCourse == Init /\ [][NextCourse]_vars

(***************************************************************************)
(* Grade calls with their results on record.  In a store that holds two    *)
(* students and a course, the four grade mutations run as whole calls and  *)
(* last keeps the operation, arguments, success flag and message of every  *)
(* call, the refused ones included.                                        *)
(***************************************************************************)
Report(op, args, r) ==
  /\ Commit(r.db)
  /\ last' = [op |-> op, args |-> args, ok |-> r.ok, msg |-> r.msg]
  /\ UNCHANGED <<pc, loc>>

ReportAddGrade ==
  \E student_id \in StudentIdInputs, course_id \in CourseIdInputs,
     grade_value \in GradeInputs :
    Report("add_grade", <<student_id, course_id, grade_value>>,
           add_grade(Cur, student_id, course_id, grade_value))

ReportUpdateGrade ==
  \E grade_id \in GradeIdInputs, grade_value \in GradeInputs :
    Report("update_grade", <<grade_id, grade_value>>,
           update_grade(Cur, grade_id, grade_value))

ReportUpdateGradeByStudentCourse ==
  \E student_id \in StudentIdInputs, course_id \in CourseIdInputs,
     grade_value \in GradeInputs :
    Report("update_grade_by_student_course", <<student_id, course_id, grade_value>>,
           update_grade_by_student_course(Cur, student_id, course_id, grade_value))

ReportDeleteGrade ==
  \E grade_id \in GradeIdInputs :
    Report("delete_grade", <<grade_id>>, delete_grade(Cur, grade_id))

NextGradeCalls ==
  \/ ReportAddGrade
  \/ ReportUpdateGrade
  \/ ReportUpdateGradeByStudentCourse
  \/ ReportDeleteGrade

SpecGradeCalls == InitConc /\ [][NextGradeCalls]_vars

(***************************************************************************)
(* "Create Tables with Sample Data" (ui/db_ui.py): create_tables followed  *)
(* by seed_data, then grade calls on the seeded store.                     *)
(***************************************************************************)
SeedData ==
  \E enroll_code \in SeedEnrollmentCodes, random_part \in RandomParts,
     grade \in SeedGrades :
    Call("seed_data", <<>>, seed_data(create_tables(Cur), enroll_code, random_part, grade))

NextSeed ==
  \/ SeedData
  \/ AddGrade
  \/ UpdateGrade
  \/ UpdateGradeByStudentCourse

SpecSeed == Init /\ [][NextSeed]_vars

(***************************************************************************)
(* Store failures and refused writes.  Every mutation is called with the   *)
(* connection failing; add_student also runs on the working store, where   *)
(* both stored emails are taken (a refused INSERT or UPDATE), and one      *)
(* caller is about to save a grade for a student that was deleted after    *)
(* the caller's existence check (a refused INSERT).  last keeps the        *)
(* operation, arguments and result of every call.                          *)
(***************************************************************************)
AddStudentStoreDown ==
  \E name \in Names, email \in EmailInputs, code \in EnrollmentCodes,
     random_part \in RandomParts :
    Report("add_student", <<name, email, code, random_part>>,
           add_student(Failing(Cur), name, email, code, random_part))

UpdateStudentStoreDown ==
  \E old_id \in StudentIdInputs, new_id \in StudentIdInputs,
     name \in Names, email \in EmailInputs :
    Report("update_student", <<old_id, new_id, name, email>>,
           update_student(Failing(Cur), old_id, new_id, name, email))

DeleteStudentStoreDown ==
  \E student_id \in StudentIdInputs :
    Report("delete_student", <<student_id>>, delete_student(Failing(Cur), student_id))

AddCourseStoreDown ==
  \E name \in CourseNames, code \in CourseCodes, credits \in CreditInputs :
    Report("add_course", <<name, code, credits>>,
           add_course(Failing(Cur), name, code, credits))

UpdateCourseStoreDown ==
  \E course_id \in CourseIdInputs, name \in CourseNames, code \in CourseCodes,
     credits \in CreditInputs :
    Report("update_course", <<course_id, name, code, credits>>,
           update_course(Failing(Cur), course_id, name, code, credits))

DeleteCourseStoreDown ==
  \E course_id \in CourseIdInputs :
    Report("delete_course", <<course_id>>, delete_course(Failing(Cur), course_id))

AddGradeStoreDown ==
  \E student_id \in StudentIdInputs, course_id \in CourseIdInputs,
     grade_value \in GradeInputs :
    Report("add_grade", <<student_id, course_id, grade_value>>,
           add_grade(Failing(Cur), student_id, course_id, grade_value))

UpdateGradeStoreDown ==
  \E grade_id \in GradeIdInputs, grade_value \in GradeInputs :
    Report("update_grade", <<grade_id, grade_value>>,
           update_grade(Failing(Cur), grade_id, grade_value))

UpdateGradeByStudentCourseStoreDown ==
  \E student_id \in StudentIdInputs, course_id \in CourseIdInputs,
     grade_value \in GradeInputs :
    Report("update_grade_by_student_course", <<student_id, course_id, grade_value>>,
           update_grade_by_student_course(Failing(Cur), student_id, course_id, grade_value))

DeleteGradeStoreDown ==
  \E grade_id \in GradeIdInputs :
    Report("delete_grade", <<grade_id>>, delete_grade(Failing(Cur), grade_id))

ReportAddStudent ==
  \E name \in Names, email \in EmailInputs, code \in EnrollmentCodes,
     random_part \in RandomParts :
    Report("add_student", <<name, email, code, random_part>>,
           add_student(Cur, name, email, code, random_part))

NextFailure ==
  \/ AddStudentStoreDown
  \/ UpdateStudentStoreDown
  \/ DeleteStudentStoreDown
  \/ AddCourseStoreDown
  \/ UpdateCourseStoreDown
  \/ DeleteCourseStoreDown
  \/ AddGradeStoreDown
  \/ UpdateGradeStoreDown
  \/ UpdateGradeByStudentCourseStoreDown
  \/ DeleteGradeStoreDown
  \/ ReportAddStudent
  \/ SaveGrade("p1")

InitFailure ==
  /\ students = {[student_id |-> Id1000, name |-> "Ann",
                  email |-> standardize_email(<<"a", "@", "x", ".", "i", "o">>)],
                 [student_id |-> Id2000, name |-> "Ann",
                  email |-> standardize_email(<<"b", "@", "y", ".", "i", "o">>)]}
  /\ courses = {[id |-> 1, name |-> "Math", code |-> <<"M", "1">>, credits |-> 3]}
  /\ grades = {}
  /\ courseSeq = 2
  /\ gradeSeq = 1
  /\ last = NoEvent
  /\ pc = [p \in Procs |-> IF p = "p1" THEN "save_grade" ELSE "idle"]
  /\ loc = [p \in Procs |->
              IF p = "p1"
              THEN [op |-> "add_grade",
                    grade |-> [id |-> 0,
                               student_id |-> generate_student_id(<<"2", "0", "1">>, 1001).id,
                               course_id |-> 1, grade |-> 55]]
              ELSE NoLoc]

SpecFailure == InitFailure /\ [][NextFailure]_vars

(***************************************************************************)
(* Student calls with their results on record: add_student, update_student *)
(* and delete_student as whole calls from the empty store, with the wider  *)
(* input pools; last keeps the operation, arguments and result of every    *)
(* call.                                                                   *)
(***************************************************************************)
ReportAddStudentTyped ==
  \E name \in Names, email \in EmailInputs, code \in EnrollmentCodeInputs,
     random_part \in RandomParts :
    Report("add_student", <<name, email, code, random_part>>,
           add_student(Cur, name, email, code, random_part))

ReportUpdateStudent ==
  \E old_id \in StudentIdInputs, new_id \in NewIdInputs,
     name \in Names, email \in EmailInputs :
    Report("update_student", <<old_id, new_id, name, email>>,
           update_student(Cur, old_id, new_id, name, email))

ReportDeleteStudent ==
  \E student_id \in NewIdInputs :
    Report("delete_student", <<student_id>>, delete_student(Cur, student_id))

NextStudentCalls ==
  \/ ReportAddStudentTyped
  \/ ReportUpdateStudent
  \/ ReportDeleteStudent

SpecStudentCalls == Init /\ [][NextStudentCalls]_vars

(***************************************************************************)
(* Grade calculator (utils/grade_calculator.py).  A raw grade is modelled  *)
(* as a whole number: every band test compares the grade with a whole      *)
(* number, so a fractional grade falls in the band of its integer part.    *)
(* Grade points are the integers 0..4 and a weighted GPA is counted in     *)
(* hundredths.                                                             *)
(***************************************************************************)
MaxPairs == 3

RawInputs == -5 .. 105

PairGrades == {55, 65, 95}

PairCredits == {0, 1, 3, 4}

PairInputs ==
  UNION {[1..n -> PairGrades \X PairCredits] : n \in 0..MaxPairs}

\* variant: the lowest passing band starts at 65
raw_grade_to_gpa_late_pass(raw_grade) ==
  IF raw_grade >= 90 THEN 4
  ELSE IF raw_grade >= 80 THEN 3
  ELSE IF raw_grade >= 70 THEN 2
  ELSE IF raw_grade >= 65 THEN 1
  ELSE 0

raw_grade_to_gpa(raw_grade) ==
  IF raw_grade >= 90 THEN 4
  ELSE IF raw_grade >= 80 THEN 3
  ELSE IF raw_grade >= 70 THEN 2
  ELSE IF raw_grade >= 60 THEN 1
  ELSE 0

\* variant: the bands exclude their lower bound
raw_grade_to_letter_exclusive(raw_grade) ==
  IF raw_grade > 90 THEN "A"
  ELSE IF raw_grade > 80 THEN "B"
  ELSE IF raw_grade > 70 THEN "C"
  ELSE IF raw_grade > 60 THEN "D"
  ELSE "F"

raw_grade_to_letter(raw_grade) ==
  IF raw_grade >= 90 THEN "A"
  ELSE IF raw_grade >= 80 THEN "B"
  ELSE IF raw_grade >= 70 THEN "C"
  ELSE IF raw_grade >= 60 THEN "D"
  ELSE "F"

\* sum(raw_grade_to_gpa(grade) * credits for grade, credits in grades)
RECURSIVE total_points(_)
total_points(pairs) ==
  IF pairs = <<>> THEN 0
  ELSE raw_grade_to_gpa(Head(pairs)[1]) * Head(pairs)[2] + total_points(Tail(pairs))

\* sum(credits for _, credits in grades)
RECURSIVE total_credits(_)
total_credits(pairs) ==
  IF pairs = <<>> THEN 0
  ELSE Head(pairs)[2] + total_credits(Tail(pairs))

\* round(num / den, 2) in hundredths, for num >= 0 and den > 0: the nearest
\* hundredth, and the even one when the quotient lies halfway.  The
\* quotients that lie halfway are multiples of 1/8 while den < 40, and
\* those are exact in binary floating point.
round2(num, den) ==
  LET q == (100 * num) \div den
      rest == (100 * num) % den
  IN IF 2 * rest < den THEN q
     ELSE IF 2 * rest > den THEN q + 1
     ELSE IF q % 2 = 0 THEN q ELSE q + 1

\* variant: the quotient is cut after two decimals
calculate_weighted_gpa_truncated(pairs) ==
  IF pairs = <<>> THEN 0
  ELSE IF total_credits(pairs) > 0
       THEN (100 * total_points(pairs)) \div total_credits(pairs)
       ELSE 0

calculate_weighted_gpa(pairs) ==
  IF pairs = <<>> THEN 0
  ELSE IF total_credits(pairs) > 0
       THEN round2(total_points(pairs), total_credits(pairs))
       ELSE 0

has_failing_grade(raw_grades) == \E grade \in raw_grades : grade < 60

(***************************************************************************)
(* The calculator applied to drawn inputs                                  *)
(***************************************************************************)
InitCalc ==
  /\ students = {}
  /\ courses = {}
  /\ grades = {}
  /\ courseSeq = 1
  /\ gradeSeq = 1
  /\ \/ \E raw \in RawInputs : last = [op |-> "raw", args |-> <<raw>>]
     \/ \E pairs \in PairInputs : last = [op |-> "pairs", args |-> <<pairs>>]
  /\ pc = [p \in Procs |-> "idle"]
  /\ loc = [p \in Procs |-> NoLoc]

Applied(op, result) ==
  /\ last' = [op |-> op, args |-> last.args, result |-> result]
  /\ UNCHANGED <<students, courses, grades, courseSeq, gradeSeq, pc, loc>>

RawGradeToGpa ==
  /\ last.op = "raw"
  /\ Applied("raw_grade_to_gpa", raw_grade_to_gpa(last.args[1]))

RawGradeToLetter ==
  /\ last.op = "raw"
  /\ Applied("raw_grade_to_letter", raw_grade_to_letter(last.args[1]))

CalculateWeightedGpa ==
  /\ last.op = "pairs"
  /\ Applied("calculate_weighted_gpa", calculate_weighted_gpa(last.args[1]))

NextCalc ==
  \/ RawGradeToGpa
  \/ RawGradeToLetter
  \/ CalculateWeightedGpa

SpecCalc == InitCalc /\ [][NextCalc]_vars

(***************************************************************************)
(* Analytics (GradeService.get_analytics_data) and the database page       *)
(***************************************************************************)
TopN == 3

\* the store's queries that a call of get_analytics_data may run
Queries ==
  {"Student.get_all", "Grade.get_student_grades", "grade_data",
   "Course.get_all", "Grade.get_course_grades"}

\* the queries that raise during one call: none, one kind, or all
FailurePatterns == {{}, Queries} \cup {{q} : q \in Queries}

\* Student.get_all catches the exception of its query and returns []
Student_get_all(d, failed) ==
  IF "Student.get_all" \in failed THEN {} ELSE d.students

Course_get_all(d) == d.courses

\* the order of the student names of the model under ORDER BY s.name
NamesInOrder == <<"Alice Johnson", "Ann", "Bob", "Cy">>

NameRank(name) == CHOOSE i \in 1..Len(NamesInOrder) : NamesInOrder[i] = name

\* the sequences that hold every element of S once
Orderings(S) ==
  {rows \in [1..Cardinality(S) -> S] :
     \A i, j \in 1..Cardinality(S) : rows[i] = rows[j] => i = j}

\* a grade row with the columns of the joined students and courses rows
WithNames(d, g) ==
  [id |-> g.id, student_id |-> g.student_id, course_id |-> g.course_id,
   grade |-> g.grade,
   student_name |-> (CHOOSE s \in d.students : s.student_id = g.student_id).name,
   course_name |-> (CHOOSE c \in d.courses : c.id = g.course_id).name]

\* variant: ORDER BY g.grade, s.name
Grade_get_course_grades_ascending(d, course_id) ==
  {rows \in Orderings({WithNames(d, g) : g \in {x \in Joined(d) : x.course_id = course_id}}) :
     \A i, j \in 1..Len(rows) :
       i < j => \/ rows[i].grade < rows[j].grade
                \/ /\ rows[i].grade = rows[j].grade
                   /\ NameRank(rows[i].student_name) <= NameRank(rows[j].student_name)}

\* ORDER BY g.grade DESC, s.name: every order of the rows that the clause
\* allows (rows equal in grade and name come in any order)
Grade_get_course_grades(d, course_id) ==
  {rows \in Orderings({WithNames(d, g) : g \in {x \in Joined(d) : x.course_id = course_id}}) :
     \A i, j \in 1..Len(rows) :
       i < j => \/ rows[i].grade > rows[j].grade
                \/ /\ rows[i].grade = rows[j].grade
                   /\ NameRank(rows[i].student_name) <= NameRank(rows[j].student_name)}

\* the rows of S one after the other; the query has no ORDER BY and
\* calculate_weighted_gpa does not depend on the order
RECURSIVE InIdOrder(_)
InIdOrder(S) ==
  IF S = {} THEN <<>>
  ELSE LET g == CHOOSE x \in S : \A y \in S : x.id <= y.id
       IN <<g>> \o InIdOrder(S \ {g})

\* SELECT g.grade, c.credits FROM grades g JOIN courses c ... WHERE g.student_id = %s
grade_data(d, student_id) ==
  LET rows == InIdOrder({g \in d.grades : /\ g.student_id = student_id
                                          /\ \E c \in d.courses : c.id = g.course_id})
  IN [i \in 1..Len(rows) |->
        <<rows[i].grade, (CHOOSE c \in d.courses : c.id = rows[i].course_id).credits>>]

\* variant: only the GPA decides the flag
student_record_gpa_only(d, student) ==
  LET student_gpa == calculate_weighted_gpa(grade_data(d, student.student_id))
  IN [student_id |-> student.student_id, name |-> student.name,
      email |-> student.email, gpa |-> student_gpa,
      failed |-> IF student_gpa < 200 THEN "Yes" ELSE "No"]

\* one pass of the loop over the students; the GPA is in hundredths
student_record(d, student) ==
  LET raw_grades == {g.grade : g \in Grade_get_student_grades(d, student.student_id)}
      student_gpa == calculate_weighted_gpa(grade_data(d, student.student_id))
  IN [student_id |-> student.student_id, name |-> student.name,
      email |-> student.email, gpa |-> student_gpa,
      failed |-> IF has_failing_grade(raw_grades) \/ student_gpa < 200
                 THEN "Yes" ELSE "No"]

RECURSIVE SumGrades(_)
SumGrades(rows) ==
  IF rows = <<>> THEN 0 ELSE Head(rows).grade + SumGrades(Tail(rows))

\* one pass of the loop over the courses: the value stored under the
\* course's name; the average is in hundredths
course_entry(rows) ==
  [average_grade |-> IF rows = <<>> THEN 0 ELSE round2(SumGrades(rows), Len(rows)),
   top_students |->
     [i \in 1..(IF Len(rows) < TopN THEN Len(rows) ELSE TopN) |->
        [name |-> rows[i].student_name, grade |-> rows[i].grade,
         letter |-> raw_grade_to_letter(rows[i].grade)]]]

EmptyMapping == [name \in {} |-> name]

\* course_analytics[course.name] = ...
SetItem(mapping, course, value) ==
  [key \in DOMAIN mapping \cup {course.name} |->
     IF key = course.name THEN value ELSE mapping[key]]

\* the loop over Course.get_all() (ORDER BY id), from the mapping built so
\* far: the mappings it can end with
RECURSIVE course_analytics(_, _, _)
course_analytics(d, todo, mapping) ==
  IF todo = {} THEN {mapping}
  ELSE LET course == CHOOSE c \in todo : \A other \in todo : c.id <= other.id
       IN UNION {course_analytics(d, todo \ {course},
                                  SetItem(mapping, course, course_entry(rows))) :
                   rows \in Grade_get_course_grades(d, course.id)}

\* except Exception: return pd.DataFrame(), {}
EmptyResults == [students |-> {}, courses |-> EmptyMapping]

\* The results the call can return from store d when the queries in
\* failed raise.  A query raises only if it runs: the queries of the
\* student loop run if Student.get_all returned a student, and the query
\* of the course loop runs if there is a course.
get_analytics_data(d, failed) ==
  LET all_students == Student_get_all(d, failed)
      raised ==
        \/ all_students # {} /\ "Grade.get_student_grades" \in failed
        \/ all_students # {} /\ "grade_data" \in failed
        \/ "Course.get_all" \in failed
        \/ Course_get_all(d) # {} /\ "Grade.get_course_grades" \in failed
  IN IF raised THEN {EmptyResults}
     ELSE {[students |-> {student_record(d, s) : s \in all_students},
            courses |-> mapping] :
             mapping \in course_analytics(d, Course_get_all(d), EmptyMapping)}

\* the "Create Tables Only" button: create_tables() and its result
create_tables_only(d, fails) ==
  IF fails THEN ExceptReturn("Error in creating tables", d)
  ELSE Ret(TRUE, "Tables created successfully.", create_tables(d))

Id3000 == <<"2", "0", "3", "-", "1", "0", "0", "0">>
Id4000 == <<"2", "0", "4", "-", "1", "0", "0", "0">>

AnalyticsStudents ==
  {[student_id |-> Id1000, name |-> "Ann", email |-> <<"a">> \o EmailSuffix],
   [student_id |-> Id2000, name |-> "Bob", email |-> <<"b">> \o EmailSuffix],
   [student_id |-> Id3000, name |-> "Bob", email |-> <<"c">> \o EmailSuffix],
   [student_id |-> Id4000, name |-> "Cy", email |-> <<"d">> \o EmailSuffix]}

AnalyticsCourseNames == {"Math", "Physics"}

AnalyticsGrades == {55, 75, 95}

\* the pairs that may hold a grade, each with the id of its row
AnalyticsPairs ==
  {<<1, Id1000, 1>>, <<2, Id2000, 1>>, <<3, Id3000, 1>>, <<4, Id4000, 1>>,
   <<5, Id1000, 2>>, <<6, Id2000, 2>>}

\* a store with four students, two courses that may have the same name,
\* and any grades for the pairs
InitAnalytics ==
  /\ students = AnalyticsStudents
  /\ \E name \in AnalyticsCourseNames :
       courses = {[id |-> 1, name |-> "Math", code |-> <<"M", "1">>, credits |-> 3],
                  [id |-> 2, name |-> name, code |-> <<"P", "1">>, credits |-> 1]}
  /\ \E held \in SUBSET AnalyticsPairs :
       \E value \in [held -> AnalyticsGrades] :
         grades = {[id |-> p[1], student_id |-> p[2], course_id |-> p[3],
                    grade |-> value[p]] : p \in held}
  /\ courseSeq = 3
  /\ gradeSeq = 7
  /\ last = NoEvent
  /\ pc = [p \in Procs |-> "idle"]
  /\ loc = [p \in Procs |-> NoLoc]

GetAnalyticsData ==
  \E failed \in FailurePatterns :
    \E results \in get_analytics_data(Cur, failed) :
      /\ last' = [op |-> "get_analytics_data", args |-> <<failed>>, result |-> results]
      /\ UNCHANGED <<students, courses, grades, courseSeq, gradeSeq, pc, loc>>

\* create_tables draws no id, so the step needs no room in the sequences
CreateTablesOnly ==
  \E fails \in BOOLEAN :
    LET r == create_tables_only(Cur, fails)
    IN /\ students' = r.db.students
       /\ courses' = r.db.courses
       /\ grades' = r.db.grades
       /\ courseSeq' = r.db.courseSeq
       /\ gradeSeq' = r.db.gradeSeq
       /\ last' = [op |-> "create_tables", args |-> <<>>, ok |-> r.ok, msg |-> r.msg]
       /\ UNCHANGED <<pc, loc>>

NextAnalytics ==
  \/ GetAnalyticsData
  \/ CreateTablesOnly

SpecAnalytics == InitAnalytics /\ [][NextAnalytics]_vars

(***************************************************************************)
(* Properties                                                              *)
(***************************************************************************)
AllIdle == \A p \in Procs : pc[p] = "idle"

RowsOf(G, student_id, course_id) ==
  {g \in G : g.student_id = student_id /\ g.course_id = course_id}

\* C1: in every state reached by service calls (students, courses and
\* grades added, updated and deleted, students renamed) the grade table
\* holds at most one row per (student, course) pair.
NoDuplicateGrade ==
  \A g1 \in grades, g2 \in grades :
    (g1.student_id = g2.student_id /\ g1.course_id = g2.course_id) => g1 = g2

\* a student holding grades in two courses has just been renamed
RenamedWithTwoGrades ==
  /\ last.op = "update_student" /\ last.ok
  /\ last.args[2] # <<>> /\ last.args[2] # last.args[1]
  /\ Cardinality({g \in grades : g.student_id = last.args[2]}) = 2

\* C2: every grade row references a student and a course that are both in
\* the store, also when the transactions of add_grade are interleaved with
\* a delete_student or delete_course of the entity the grade refers to.
NoOrphanGrade ==
  \A g \in grades :
    /\ \E s \in students : s.student_id = g.student_id
    /\ \E c \in courses : c.id = g.course_id

\* add_grade passed both existence checks and its INSERT was then refused
AddGradeRefusedAfterChecks ==
  /\ last.op = "add_grade" /\ ~last.ok
  /\ last.msg = "Error assigning grade"

\* C3: add_grade on a pair that already has a grade overwrites it: after
\* two successful add_grade calls with the same pair there is exactly one
\* row for the pair and it holds the value of the later call.
AddGradeOverwrites ==
  /\ \A student_id \in StudentIdInputs, course_id \in CourseIdInputs,
        v1 \in GradeInputs, v2 \in GradeInputs :
       LET r1 == add_grade(Cur, student_id, course_id, v1)
           r2 == add_grade(r1.db, student_id, course_id, v2)
           rows == RowsOf(r2.db.grades, student_id, course_id)
       IN (r1.ok /\ r2.ok) =>
            (Cardinality(rows) = 1 /\ \A g \in rows : g.grade = v2)
  /\ (last.op = "add_grade" /\ last.ok) =>
       LET rows == RowsOf(grades, last.args[1], last.args[2])
       IN Cardinality(rows) = 1 /\ \A g \in rows : g.grade = last.args[3]

\* the latest add_grade succeeded and no row carries the id its INSERT
\* drew: it ended as the update of the row the pair already had
AddGradeOverwrote ==
  /\ last.op = "add_grade" /\ last.ok
  /\ ~\E g \in grades : g.id = gradeSeq - 1
  /\ \E g \in RowsOf(grades, last.args[1], last.args[2]) : g.grade = last.args[3]

\* C4: two concurrent upserts (add_grade, update_grade_by_student_course)
\* of one (student, course) pair never leave two rows for the pair,
\* however their reads and writes interleave, and once both have returned
\* the row holds the value of one of the two calls.
UpsertRaceLeavesOneRow ==
  LET rows == RowsOf(grades, UpsertPair.student_id, UpsertPair.course_id)
  IN /\ Cardinality(rows) <= 1
     /\ AllIdle => /\ Cardinality(rows) = 1
                   /\ \A g \in rows : \E p \in Procs : g.grade = UpsertValue[p]

\* the check-then-insert race: one caller found no grade for the pair and
\* is about to save a new one, and the other caller's upsert has meanwhile
\* returned and left a row for the pair
InsertAfterStaleRead ==
  \E p \in Procs, q \in Procs :
    /\ pc[p] = "save_grade" /\ loc[p].grade.id = 0
    /\ loc[p].op = "update_grade_by_student_course"
    /\ pc[q] = "idle"
    /\ RowsOf(grades, UpsertPair.student_id, UpsertPair.course_id) # {}
    /\ gradeSeq = 2

\* C5: delete_student fails and changes nothing when no student has the
\* id; when it succeeds it removes that student and every grade that
\* references it (the student's grade list is then empty) and leaves the
\* other students, the courses and the other students' grades as they were.
DeleteStudentContract ==
  /\ \A student_id \in StudentIdInputs :
       LET r == delete_student(Cur, student_id)
           present == \E s \in students : s.student_id = student_id
       IN /\ ~present => (~r.ok /\ r.db = Cur)
          /\ r.ok => /\ present
                     /\ r.db.students = {s \in students : s.student_id # student_id}
                     /\ r.db.grades = {g \in grades : g.student_id # student_id}
                     /\ r.db.courses = courses
                     /\ Grade_get_student_grades(r.db, student_id) = {}
  /\ (last.op = "delete_student" /\ last.ok) =>
       /\ ~\E s \in students : s.student_id = last.args[1]
       /\ ~\E g \in grades : g.student_id = last.args[1]

\* a student was deleted while grades had been handed out, and another
\* student's grade is still there
StudentDeletedOthersKept ==
  /\ last.op = "delete_student" /\ last.ok
  /\ students # {}
  /\ grades # {}
  /\ Cardinality(grades) < gradeSeq - 1

\* C6: delete_course fails and changes nothing when no course has the id;
\* when it succeeds it removes that course and every grade that references
\* it and leaves the students, the other courses and the grades of other
\* courses as they were.
DeleteCourseContract ==
  /\ \A course_id \in CourseIdInputs :
       LET r == delete_course(Cur, course_id)
           present == \E c \in courses : c.id = course_id
       IN /\ ~present => (~r.ok /\ r.db = Cur)
          /\ r.ok => /\ present
                     /\ r.db.courses = {c \in courses : c.id # course_id}
                     /\ r.db.grades = {g \in grades : g.course_id # course_id}
                     /\ r.db.students = students
  /\ (last.op = "delete_course" /\ last.ok) =>
       /\ ~\E c \in courses : c.id = last.args[1]
       /\ ~\E g \in grades : g.course_id = last.args[1]

\* a course was deleted while grades had been handed out, and a grade of
\* another course is still there
CourseDeletedOthersKept ==
  /\ last.op = "delete_course" /\ last.ok
  /\ courses # {}
  /\ grades # {}
  /\ Cardinality(grades) < gradeSeq - 1

\* C7: after a successful update_student whose new id is given and differs
\* from the old id, no student and no grade references the old id, a
\* student with the new id exists, every grade that referenced the old id
\* references the new id with the same course and value, and the number of
\* grade rows is unchanged.
RenameCascades ==
  /\ \A old_id \in StudentIdInputs, new_id \in StudentIdInputs,
        name \in Names, email \in EmailInputs :
       LET r == update_student(Cur, old_id, new_id, name, email)
       IN (r.ok /\ new_id # <<>> /\ new_id # old_id) =>
            /\ ~\E s \in r.db.students : s.student_id = old_id
            /\ ~\E g \in r.db.grades : g.student_id = old_id
            /\ \E s \in r.db.students : s.student_id = new_id
            /\ \A g \in grades :
                 g.student_id = old_id =>
                   [id |-> g.id, student_id |-> new_id,
                    course_id |-> g.course_id, grade |-> g.grade] \in r.db.grades
            /\ \A g \in grades : g.student_id # old_id => g \in r.db.grades
            /\ Cardinality(r.db.grades) = Cardinality(grades)
  /\ (last.op = "update_student" /\ last.ok
        /\ last.args[2] # <<>> /\ last.args[2] # last.args[1]) =>
       /\ ~\E s \in students : s.student_id = last.args[1]
       /\ ~\E g \in grades : g.student_id = last.args[1]
       /\ \E s \in students : s.student_id = last.args[2]

\* a rename has just succeeded and a grade followed the student to the
\* new id
RenamedWithGrade ==
  /\ last.op = "update_student" /\ last.ok
  /\ last.args[2] # <<>> /\ last.args[2] # last.args[1]
  /\ \E g \in grades : g.student_id = last.args[2]

\* C8: update_student runs in one transaction: whenever it returns failure,
\* the students (identifier, name, email) and the grade rows are exactly as
\* before the call.
UpdateStudentFailureChangesNothing ==
  [][(last'.op = "update_student" /\ ~last'.ok)
       => (students' = students /\ grades' = grades)]_vars

\* C9: when add_student generates the identifier of a stored student, the
\* attempt is rejected (no student is created, no success is reported) and
\* the stored student's name and email stay as they are.
AddStudentCollisionRejected ==
  \A name \in Names, email \in EmailInputs, code \in EnrollmentCodes,
     random_part \in RandomParts :
    LET gen == generate_student_id(code, random_part)
        r == add_student(Cur, name, email, code, random_part)
    IN (name # "" /\ validate_email(email).valid /\ gen.ok
          /\ \E s \in students : s.student_id = gen.id)
         => (~r.ok /\ r.db.students = students)

\* C10: add_course returns failure and creates no course row when the name
\* is empty, the code is empty, credits <= 0 or the code is that of an
\* existing course; in the last case the message says that the code
\* already exists.
AddCourseRejects ==
  \A name \in CourseNames, code \in CourseCodes, credits \in CreditInputs :
    LET r == add_course(Cur, name, code, credits)
        taken == \E c \in courses : c.code = code
    IN /\ (name = "" \/ code = <<>> \/ credits <= 0 \/ taken) =>
            (~r.ok /\ r.db.courses = courses)
       /\ (name # "" /\ code # <<>> /\ credits > 0 /\ taken) =>
            r.msg = "Course with code already exists"

\* a call has just been turned down without a write, in a store where a
\* course holds a code that an add_course call is refused for
DuplicateCodeRefused ==
  /\ last = NoEvent
  /\ \E c \in courses :
       LET r == add_course(Cur, "Math", c.code, 3)
       IN ~r.ok /\ r.msg = "Course with code already exists"

\* C11: no two courses share a code, in every state reached by add_course,
\* update_course and delete_course calls whose transactions interleave in
\* any order; update_course to a code held by a different course returns
\* failure and leaves the courses as they were, and update_course with the
\* course's own code (and a valid name and credits) succeeds.
CourseCodesUnique ==
  /\ \A c1 \in courses, c2 \in courses : c1.code = c2.code => c1 = c2
  /\ \A course_id \in CourseIdInputs, name \in CourseNames, code \in CourseCodes,
        credits \in CreditInputs :
       LET r == update_course(Cur, course_id, name, code, credits)
           own == \E c \in courses : c.id = course_id /\ c.code = code
           held == \E c \in courses : c.id # course_id /\ c.code = code
       IN /\ held => (~r.ok /\ r.db.courses = courses)
          /\ (own /\ name # "" /\ credits > 0) =>
               (r.ok /\ \E c \in r.db.courses : c.id = course_id /\ c.code = code)

\* a caller's add_course found the code free and its INSERT was then
\* refused: another caller stored the code in between
AddCourseRefusedAfterCheck ==
  /\ last.op = "add_course" /\ ~last.ok
  /\ last.msg = "Error adding course"
  /\ \E c \in courses : c.code = last.args[3]

\* C12: add_grade returns failure and leaves the grade table unchanged when
\* the student id references no stored student, the course id references
\* no stored course, or the value is below 0 or above 100.
AddGradeRejects ==
  [][(/\ last'.op = "add_grade"
      /\ \/ ~\E s \in students : s.student_id = last'.args[1]
         \/ ~\E c \in courses : c.id = last'.args[2]
         \/ last'.args[3] < 0
         \/ last'.args[3] > 100)
       => (~last'.ok /\ grades' = grades)]_vars

\* add_grade has just been refused for an unknown course in a store that
\* holds the student it named and a grade
AddGradeRefusedUnknownCourse ==
  /\ last.op = "add_grade" /\ ~last.ok
  /\ last.msg = "Course with ID not found"
  /\ \E s \in students : s.student_id = last.args[1]
  /\ grades # {}

\* C13: every stored grade value lies in [0, 100] in every state reached
\* through seed_data, add_grade, update_grade and
\* update_grade_by_student_course.
GradesInRange == \A g \in grades : g.grade >= 0 /\ g.grade <= 100

\* the seeded grade has just been replaced through update_grade
SeededGradeUpdated ==
  /\ last.op = "update_grade" /\ last.ok
  /\ \E g \in grades : g.id = last.args[1] /\ g.grade = last.args[2]
  /\ \E s \in students : s.name = "Alice Johnson"

\* messages of the except clauses of the ten mutations
ExceptMessages ==
  {"Error adding student", "Error updating student", "Error deleting student",
   "Error adding course", "Error updating course", "Error deleting course",
   "Error assigning grade", "Error updating grade", "Error deleting grade"}

\* what holds of the (success, message) pair r a mutation returned on
\* store d: when the store is failing, or the message is that of the except
\* clause, success is false
FailureReported(r, d) ==
  /\ r.ok \in BOOLEAN
  /\ (Down(d) \/ r.msg \in ExceptMessages) => ~r.ok

\* C14: each of the ten service mutations returns a (success, message)
\* pair; when the store refuses the write (a uniqueness or foreign-key
\* violation) or the store connection fails, the exception ends in the
\* except clause and success is false.
MutationsReportFailure ==
  /\ last.ok \in BOOLEAN
  /\ last.msg \in ExceptMessages => ~last.ok
  /\ \A d \in {Cur, Failing(Cur)} :
       /\ \A name \in Names, email \in EmailInputs, code \in EnrollmentCodes,
             random_part \in RandomParts :
            FailureReported(add_student(d, name, email, code, random_part), d)
       /\ \A old_id \in StudentIdInputs, new_id \in StudentIdInputs,
             name \in Names, email \in EmailInputs :
            FailureReported(update_student(d, old_id, new_id, name, email), d)
       /\ \A student_id \in StudentIdInputs :
            FailureReported(delete_student(d, student_id), d)
       /\ \A name \in CourseNames, code \in CourseCodes, credits \in CreditInputs :
            FailureReported(add_course(d, name, code, credits), d)
       /\ \A course_id \in CourseIdInputs, name \in CourseNames,
             code \in CourseCodes, credits \in CreditInputs :
            FailureReported(update_course(d, course_id, name, code, credits), d)
       /\ \A course_id \in CourseIdInputs :
            FailureReported(delete_course(d, course_id), d)
       /\ \A student_id \in StudentIdInputs, course_id \in CourseIdInputs,
             grade_value \in GradeInputs :
            /\ FailureReported(add_grade(d, student_id, course_id, grade_value), d)
            /\ FailureReported(update_grade_by_student_course(d, student_id, course_id,
                                                               grade_value), d)
       /\ \A grade_id \in GradeIdInputs, grade_value \in GradeInputs :
            FailureReported(update_grade(d, grade_id, grade_value), d)
       /\ \A grade_id \in GradeIdInputs :
            FailureReported(delete_grade(d, grade_id), d)

\* the INSERT of a grade was refused by the student foreign key, and then
\* a delete_course call met the failing connection
RefusedThenStoreDown ==
  /\ gradeSeq = 2 /\ grades = {}
  /\ last.op = "delete_course" /\ ~last.ok
  /\ last.msg = "Error deleting course"

\* the identifier format DDD-DDDD: three of "0".."9", a hyphen, four of
\* "0".."9", and nothing else
WellFormedId(s) ==
  /\ Len(s) = 8
  /\ \A k \in {1, 2, 3, 5, 6, 7, 8} : s[k] \in Digits
  /\ s[4] = "-"

ThreeDigits(code) == Len(code) = 3 /\ \A k \in 1..3 : code[k] \in Digits

\* C15: add_student returns failure and creates no student when the name
\* is empty, the enrollment code is not exactly three digits, or the email
\* fails validate_email.
AddStudentRejects ==
  [][(/\ last'.op = "add_student"
      /\ \/ last'.args[1] = ""
         \/ ~ThreeDigits(last'.args[3])
         \/ ~validate_email(last'.args[2]).valid)
       => (~last'.ok /\ students' = students)]_vars

\* C16: every stored student identifier has the form DDD-DDDD, whatever
\* add_student, update_student (with or without rename) and delete_student
\* calls were made, and the identifier a successful add_student stores
\* begins with the enrollment code it was given.
StudentIdsWellFormed ==
  /\ \A s \in students : WellFormedId(s.student_id)
  /\ (last.op = "add_student" /\ last.ok) =>
       \E s \in students :
         /\ SubSeq(s.student_id, 1, 3) = last.args[3]
         /\ s.student_id = last.args[3] \o <<"-">> \o IntToStr(last.args[4])

\* C17: update_student returns failure and leaves the store unchanged when
\* the old id references no stored student, when the new id is given,
\* differs from the old id and does not have the form DDD-DDDD, or when the
\* new id is the identifier of another stored student.
UpdateStudentRejects ==
  [][(/\ last'.op = "update_student"
      /\ \/ ~\E s \in students : s.student_id = last'.args[1]
         \/ /\ last'.args[2] # <<>>
            /\ last'.args[2] # last'.args[1]
            /\ \/ ~WellFormedId(last'.args[2])
               \/ \E s \in students : s.student_id = last'.args[2])
       => (~last'.ok /\ students' = students /\ grades' = grades)]_vars

EmailSamples ==
  EmailInputs \cup
  {<<>>, <<"a", "@", "b", "@", "c">>, <<"@", "x">>, <<"a">> \o EmailSuffix}

\* the text before the first "@", or the whole text when it has no "@"
LocalPartOf(e) ==
  IF \E i \in 1..Len(e) : e[i] = "@"
  THEN SubSeq(e, 1, (CHOOSE i \in 1..Len(e) :
                       e[i] = "@" /\ \A k \in 1..(i - 1) : e[k] # "@") - 1)
  ELSE e

\* C19: standardize_email maps an email to its local part (the text before
\* the first "@", or the whole text without "@") followed by the fixed
\* suffix, and is idempotent; every email stored by add_student or
\* update_student ends with the suffix and keeps the local part that was
\* submitted.
EmailNormalized ==
  /\ \A e \in EmailSamples :
       /\ standardize_email(e) = LocalPartOf(e) \o EmailSuffix
       /\ standardize_email(standardize_email(e)) = standardize_email(e)
  /\ \A s \in students :
       /\ Len(s.email) >= Len(EmailSuffix)
       /\ SubSeq(s.email, Len(s.email) - Len(EmailSuffix) + 1, Len(s.email)) = EmailSuffix
  /\ (last.op = "add_student" /\ last.ok) =>
       \E s \in students :
         /\ s.student_id = generate_student_id(last.args[3], last.args[4]).id
         /\ s.email = LocalPartOf(last.args[2]) \o EmailSuffix
  /\ (last.op = "update_student" /\ last.ok) =>
       \E s \in students :
         /\ s.student_id = IF last.args[2] # <<>> THEN last.args[2] ELSE last.args[1]
         /\ s.email = LocalPartOf(last.args[4]) \o EmailSuffix

\* update_student has just stored an email typed with another domain
StoredEmailRewritten ==
  /\ last.op = "update_student" /\ last.ok
  /\ \E s \in students :
       /\ s.student_id = last.args[1]
       /\ s.email # last.args[4]
       /\ s.email = LocalPartOf(last.args[4]) \o EmailSuffix

\* C20: update_grade_by_student_course returns failure and changes nothing
\* when the student or the course is not in the store or the value is
\* below 0 or above 100; in every other case it succeeds and leaves exactly
\* one grade for the pair, holding the given value, whether the pair had a
\* grade before or not, and the other grades as they were.
UpdateByPairContract ==
  [][last'.op = "update_grade_by_student_course" =>
       LET student_id == last'.args[1]
           course_id == last'.args[2]
           grade_value == last'.args[3]
           refused == \/ ~\E s \in students : s.student_id = student_id
                      \/ ~\E c \in courses : c.id = course_id
                      \/ grade_value < 0
                      \/ grade_value > 100
       IN IF refused
          THEN /\ ~last'.ok
               /\ UNCHANGED <<students, courses, grades, courseSeq, gradeSeq>>
          ELSE /\ last'.ok
               /\ Cardinality(RowsOf(grades', student_id, course_id)) = 1
               /\ \A g \in RowsOf(grades', student_id, course_id) : g.grade = grade_value
               /\ grades' \ RowsOf(grades', student_id, course_id)
                    = grades \ RowsOf(grades, student_id, course_id)
               /\ UNCHANGED <<students, courses>>]_vars

\* the call has just created the grade of a pair that had none, next to the
\* grade of another pair
GradeCreatedByPair ==
  /\ last.op = "update_grade_by_student_course" /\ last.ok
  /\ Cardinality(grades) = 2
  /\ \E g \in RowsOf(grades, last.args[1], last.args[2]) :
       g.id = gradeSeq - 1 /\ g.grade = last.args[3]

\* C21: raw_grade_to_letter returns A for a grade of 90 or more, B from 80
\* up to but not including 90, C from 70 up to 80, D from 60 up to 70 and F
\* for every other grade, below 0 and above 100 included.
LetterBands ==
  last.op = "raw_grade_to_letter" =>
    LET raw == last.args[1]
    IN /\ last.result \in {"A", "B", "C", "D", "F"}
       /\ last.result = "A" <=> raw >= 90
       /\ last.result = "B" <=> (80 <= raw /\ raw < 90)
       /\ last.result = "C" <=> (70 <= raw /\ raw < 80)
       /\ last.result = "D" <=> (60 <= raw /\ raw < 70)
       /\ last.result = "F" <=> raw < 60

\* the letter of the lowest grade of a band, and of a grade above 100
LetterAtBoundary ==
  /\ last.op = "raw_grade_to_letter"
  /\ \/ last.args[1] = 90 /\ last.result = "A"
     \/ last.args[1] = 101 /\ last.result = "A"

\* C22: raw_grade_to_gpa gives 4, 3, 2, 1 or 0 points exactly when
\* raw_grade_to_letter gives A, B, C, D or F for the same grade, and a
\* higher grade never gets fewer points.
PointsFollowLetters ==
  last.op = "raw_grade_to_gpa" =>
    LET raw == last.args[1]
        letter == raw_grade_to_letter(raw)
    IN /\ last.result = 4 <=> letter = "A"
       /\ last.result = 3 <=> letter = "B"
       /\ last.result = 2 <=> letter = "C"
       /\ last.result = 1 <=> letter = "D"
       /\ last.result = 0 <=> letter = "F"
       /\ \A lower \in RawInputs :
            lower <= raw => raw_grade_to_gpa(lower) <= last.result

\* the points of the lowest passing grade
PointsAtBoundary ==
  /\ last.op = "raw_grade_to_gpa"
  /\ last.args[1] = 60
  /\ last.result = 1

Abs(n) == IF n < 0 THEN -n ELSE n

\* the sequences that hold the entries of pairs in another order
Reorderings(pairs) ==
  {[i \in 1..Len(pairs) |-> pairs[f[i]]] :
     f \in {h \in [1..Len(pairs) -> 1..Len(pairs)] :
              \A i, j \in 1..Len(pairs) : h[i] = h[j] => i = j}}

\* C23: calculate_weighted_gpa returns the sum of points times credits
\* divided by the sum of credits, rounded to two decimals; 0.0 for no pairs
\* and for a credit total of 0; the same value for the pairs in any order;
\* and a value from 0.0 to 4.0 when every pair has positive credits.
WeightedGpaContract ==
  last.op = "calculate_weighted_gpa" =>
    LET pairs == last.args[1]
        points == total_points(pairs)
        credits == total_credits(pairs)
    IN /\ (pairs = <<>> \/ credits = 0) => last.result = 0
       /\ credits > 0 => 2 * Abs(last.result * credits - 100 * points) <= credits
       /\ \A other \in Reorderings(pairs) : calculate_weighted_gpa(other) = last.result
       /\ (\A i \in 1..Len(pairs) : pairs[i][2] > 0) =>
            (0 <= last.result /\ last.result <= 400)

\* a quotient of two thirds has been rounded up to 0.67
WeightedGpaRounded ==
  /\ last.op = "calculate_weighted_gpa"
  /\ total_points(last.args[1]) = 2 * total_credits(last.args[1]) - 4
  /\ total_credits(last.args[1]) = 3
  /\ last.result = 67

\* C24: get_analytics_data marks a student as failed exactly when one of
\* the student's grades is below 60 or the student's weighted GPA is below
\* 2.0; a student without grades has GPA 0.0 and is marked.
AtRiskRule ==
  (last.op = "get_analytics_data" /\ last.args[1] = {}) =>
    \A s \in students :
      \E r \in last.result.students :
        /\ r.student_id = s.student_id
        /\ r.gpa = calculate_weighted_gpa(grade_data(Cur, s.student_id))
        /\ r.failed \in {"Yes", "No"}
        /\ r.failed = "Yes" <=>
             \/ \E g \in grades : g.student_id = s.student_id /\ g.grade < 60
             \/ r.gpa < 200
        /\ (~\E g \in grades : g.student_id = s.student_id) =>
             (r.gpa = 0 /\ r.failed = "Yes")

\* a student with GPA 3.0 is marked for a grade of 55, next to a student
\* who has no grade
FailingGradeWithGoodGpa ==
  /\ last.op = "get_analytics_data" /\ last.args[1] = {}
  /\ \E r \in last.result.students :
       r.student_id = Id1000 /\ r.gpa = 300 /\ r.failed = "Yes"
  /\ \E r \in last.result.students :
       r.student_id = Id4000 /\ r.gpa = 0 /\ r.failed = "Yes"
  /\ \E r \in last.result.students : r.failed = "No"

\* the name of the student of a grade row
NameOf(g) == (CHOOSE s \in students : s.student_id = g.student_id).name

\* rows is in the order of the ranking: higher grades first, and among
\* equal grades the names in ascending order
Ranked(rows) ==
  \A i, j \in 1..Len(rows) :
    i < j => \/ rows[i].grade > rows[j].grade
             \/ /\ rows[i].grade = rows[j].grade
                /\ NameRank(NameOf(rows[i])) <= NameRank(NameOf(rows[j]))

QueryFailed ==
  \/ "Student.get_all" \in last.args[1]
  \/ "Course.get_all" \in last.args[1]
  \/ students # {} /\ "Grade.get_student_grades" \in last.args[1]
  \/ students # {} /\ "grade_data" \in last.args[1]
  \/ courses # {} /\ "Grade.get_course_grades" \in last.args[1]

\* C26: get_analytics_data always returns; on a store without students,
\* courses and grades it returns no student record and an empty course
\* mapping, and when one of its queries fails it returns no student record
\* and an empty course mapping.
AnalyticsDegradesToEmpty ==
  last.op = "get_analytics_data" =>
    /\ (students = {} /\ courses = {} /\ grades = {}) =>
         last.result = EmptyResults
    /\ QueryFailed => last.result = EmptyResults

\* C30: the course mapping of get_analytics_data has one entry for every
\* course of the store, and the entry of a course holds the average and
\* the top list of that course's own grades, also when two courses have
\* the same name.
AnalyticsEntryPerCourse ==
  (last.op = "get_analytics_data" /\ last.args[1] = {}) =>
    /\ Cardinality(DOMAIN last.result.courses) = Cardinality(courses)
    /\ \A c \in courses :
         /\ c.name \in DOMAIN last.result.courses
         /\ LET rows == {g \in grades : g.course_id = c.id}
                n == Cardinality(rows)
                entry == last.result.courses[c.name]
            IN /\ n = 0 => entry.average_grade = 0
               /\ n > 0 => 2 * Abs(entry.average_grade * n
                                     - 100 * SumGrades(InIdOrder(rows))) <= n
               /\ Len(entry.top_students) = IF n < 3 THEN n ELSE 3
               /\ \A i \in 1..Len(entry.top_students) :
                    \E g \in rows :
                      /\ entry.top_students[i].grade = g.grade
                      /\ entry.top_students[i].name = NameOf(g)

\* C27: update_grade returns failure and changes nothing when no grade
\* has the id or the value is below 0 or above 100; otherwise it succeeds
\* and changes only the value of that grade: its id, student and course,
\* every other grade, and the students and courses stay as they were.
UpdateGradeContract ==
  [][last'.op = "update_grade" =>
       LET grade_id == last'.args[1]
           grade_value == last'.args[2]
           refused == \/ ~\E g \in grades : g.id = grade_id
                      \/ grade_value < 0
                      \/ grade_value > 100
       IN IF refused
          THEN /\ ~last'.ok
               /\ UNCHANGED <<students, courses, grades, courseSeq, gradeSeq>>
          ELSE /\ last'.ok
               /\ grades' = {IF g.id = grade_id
                             THEN [id |-> g.id, student_id |-> g.student_id,
                                   course_id |-> g.course_id, grade |-> grade_value]
                             ELSE g : g \in grades}
               /\ UNCHANGED <<students, courses>>]_vars

\* update_grade has just changed one of two grades of the same course
OneOfTwoGradesUpdated ==
  /\ last.op = "update_grade" /\ last.ok
  /\ Cardinality(grades) = 2
  /\ \E g \in grades : g.id = last.args[1] /\ g.grade = last.args[2]
  /\ \E g \in grades : g.id # last.args[1] /\ g.grade # last.args[2]

ReportedWriteLands ==
  /\ (last.op = "update_grade" /\ last.ok) =>
       \E g \in grades : g.id = last.args[1] /\ g.grade = last.args[2]
  /\ (last.op = "update_grade_by_student_course" /\ last.ok) =>
       \E g \in grades :
         /\ g.student_id = last.args[1]
         /\ g.course_id = last.args[2]
         /\ g.grade = last.args[3]

====
